---- MODULE Spec2Model ----
(***************************************************************************)
(* Link-casing plugin (src/main.ts): the casing transforms, the four       *)
(* link-command patterns, the rewrite pass transformContent and the        *)
(* editor-change handler applyTransformToEditor with its isApplying guard. *)
(*                                                                         *)
(* A text is a sequence of characters; a character is a one-letter string, *)
(* except "ae"/"AE", which stand for the non-ASCII letter U+00E6/U+00C6.   *)
(* Offsets of the source are 0-based; sequence indices here are 1-based:   *)
(* the character at offset k is s[k+1].                                    *)
(***************************************************************************)
EXTENDS Integers, Sequences, FiniteSets

VARIABLES
    text,        \* editor.getValue(): the host's document
    caret,       \* editor.posToOffset(editor.getCursor()): the host's caret offset
    settings,    \* this.settings
    isApplying,  \* this.isApplying
    pc,          \* position of the handler: "idle", "notify", "written", "finally", "thrown"
    original,    \* local of the running handler: the text read at entry
    cursorOffset,\* local of the running handler: the caret offset read at entry
    enclosing,   \* locals enclosingMatchStart / transformedMatchText / transformedPrefixLength
    transformed, \* local of the running handler: transformContent(original)
    calls        \* host calls made since the last user action

vars == <<text, caret, settings, isApplying, pc, original, cursorOffset,
          enclosing, transformed, calls>>

\* ---------------------------------------------------------------- bounds

\* A keystroke is modelled while the document is shorter than this.
MaxTypeLen == 7

\* Change notifications the host raises re-entrantly during one setValue.
MaxNested == 1

\* ------------------------------------------------------------ characters

CasePairs ==
    { <<"a", "A">>, <<"b", "B">>, <<"c", "C">>, <<"l", "L">>,
      <<"t", "T">>, <<"u", "U">>, <<"x", "X">>, <<"ae", "AE">> }

LowerLetters == { p[1] : p \in CasePairs }
UpperLetters == { p[2] : p \in CasePairs }

\* \p{L}
Letters == LowerLetters \cup UpperLetters

\* \w of a JavaScript regular expression: [A-Za-z0-9_], with or without /u
WordChars == (Letters \ {"ae", "AE"}) \cup {"1", "_"}

\* [lutc]
CmdLetters == {"l", "u", "t", "c"}

Min(S) == CHOOSE x \in S : \A y \in S : x <= y

\* first index >= i of s holding a character of S; Len(s)+1 when there is none
FirstIn(s, i, S) ==
    LET stops == { j \in i..Len(s) : s[j] \in S }
    IN  IF stops = {} THEN Len(s) + 1 ELSE Min(stops)

\* first index >= i of s holding a character outside S; Len(s)+1 when none
FirstNotIn(s, i, S) ==
    LET stops == { j \in i..Len(s) : s[j] \notin S }
    IN  IF stops = {} THEN Len(s) + 1 ELSE Min(stops)

Is(s, i, c) == i >= 1 /\ i <= Len(s) /\ s[i] = c

toLowerCaseCh(c) ==
    IF c \in UpperLetters THEN (CHOOSE p \in CasePairs : p[2] = c)[1] ELSE c

toUpperCaseCh(c) ==
    IF c \in LowerLetters THEN (CHOOSE p \in CasePairs : p[1] = c)[2] ELSE c

\* String.prototype.toLowerCase / toUpperCase
toLowerCase(s) == [i \in 1..Len(s) |-> toLowerCaseCh(s[i])]
toUpperCase(s) == [i \in 1..Len(s) |-> toUpperCaseCh(s[i])]

\* ------------------------------------------------------ casing transforms

\* toLower without the settings test: every letter is lowercased in both modes
toLowerEveryLetter(input) == toLowerCase(input)

\* /^([\p{L}\p{M}']+)/u : the leading run of letters and apostrophes
toLower(input) ==
    IF ~settings.lowercaseFirstWordOnly
    THEN toLowerCase(input)
    ELSE LET e == FirstNotIn(input, 1, Letters \cup {"'"})
         IN  toLowerCase(SubSeq(input, 1, e - 1)) \o SubSeq(input, e, Len(input))

toUpper(input) == toUpperCase(input)

\* \b before index i: exactly one of s[i-1], s[i] is a \w character
WordBoundary(s, i) ==
    (i > 1 /\ s[i - 1] \in WordChars) # (s[i] \in WordChars)

\* input.replace(/\b(\p{L})([\p{L}\p{M}]*)/gu, first.toUpperCase() + rest), from index i
RECURSIVE TitleReplace(_, _)
TitleReplace(s, i) ==
    IF i > Len(s) THEN <<>>
    ELSE IF WordBoundary(s, i) /\ s[i] \in Letters
         THEN LET e == FirstNotIn(s, i + 1, Letters)
              IN  <<toUpperCaseCh(s[i])>> \o SubSeq(s, i + 1, e - 1) \o TitleReplace(s, e)
         ELSE <<s[i]>> \o TitleReplace(s, i + 1)

toTitleCase(input) == TitleReplace(toLowerCase(input), 1)

toCapitalCase(input) ==
    LET lower == toLowerCase(input)
    IN  IF Len(lower) = 0 THEN lower
        ELSE <<toUpperCaseCh(lower[1])>> \o SubSeq(lower, 2, Len(lower))

\* the switch (cmd) of every replacer
ApplyCmd(cmd, input) ==
    CASE cmd = "l" -> toLower(input)
      [] cmd = "u" -> toUpper(input)
      [] cmd = "t" -> toTitleCase(input)
      [] cmd = "c" -> toCapitalCase(input)
      [] OTHER -> input

\* --------------------------------------------------------------- patterns

NoMatch == [ok |-> FALSE, next |-> 0, target |-> <<>>, alias |-> <<>>, cmd |-> "l"]

\* LINK_CMD_RE with [a-z] in place of [lutc]: any lower-case letter is a command
LINK_CMD_RE_AnyLetter(s, i) ==
    LET match(e) ==
            IF /\ Is(s, i, "[") /\ Is(s, i + 1, "[")
               /\ e > i + 2
               /\ Is(s, e, "\\")
               /\ e + 1 <= Len(s) /\ s[e + 1] \in LowerLetters
               /\ Is(s, e + 2, "]") /\ Is(s, e + 3, "]")
            THEN [ok |-> TRUE, next |-> e + 4, target |-> SubSeq(s, i + 2, e - 1),
                  alias |-> <<>>, cmd |-> s[e + 1]]
            ELSE NoMatch
    IN  match(FirstIn(s, i + 2, {"]", "|", "\\"}))

\* /\[\[([^\]|\\]+)\\([lutc])\]\]/ matched at index i
LINK_CMD_RE(s, i) ==
    LET match(e) ==
            IF /\ Is(s, i, "[") /\ Is(s, i + 1, "[")
               /\ e > i + 2
               /\ Is(s, e, "\\")
               /\ e + 1 <= Len(s) /\ s[e + 1] \in CmdLetters
               /\ Is(s, e + 2, "]") /\ Is(s, e + 3, "]")
            THEN [ok |-> TRUE, next |-> e + 4, target |-> SubSeq(s, i + 2, e - 1),
                  alias |-> <<>>, cmd |-> s[e + 1]]
            ELSE NoMatch
    IN  match(FirstIn(s, i + 2, {"]", "|", "\\"}))

\* /\[\[([^\]|]+)\|([^\]\\]+)\\([lutc])\]\]/ matched at index i
ALIAS_CMD_RE(s, i) ==
    LET match(e1, e2) ==
            IF /\ Is(s, i, "[") /\ Is(s, i + 1, "[")
               /\ e1 > i + 2
               /\ Is(s, e1, "|")
               /\ e2 > e1 + 1
               /\ Is(s, e2, "\\")
               /\ e2 + 1 <= Len(s) /\ s[e2 + 1] \in CmdLetters
               /\ Is(s, e2 + 2, "]") /\ Is(s, e2 + 3, "]")
            THEN [ok |-> TRUE, next |-> e2 + 4, target |-> SubSeq(s, i + 2, e1 - 1),
                  alias |-> SubSeq(s, e1 + 1, e2 - 1), cmd |-> s[e2 + 1]]
            ELSE NoMatch
        bar(e1) == match(e1, FirstIn(s, e1 + 1, {"]", "\\"}))
    IN  bar(FirstIn(s, i + 2, {"]", "|"}))

\* /\[\[([^\]|\\]+)\]\]\\([lutc])/ matched at index i
POSTFIX_LINK_CMD_RE(s, i) ==
    LET match(e) ==
            IF /\ Is(s, i, "[") /\ Is(s, i + 1, "[")
               /\ e > i + 2
               /\ Is(s, e, "]") /\ Is(s, e + 1, "]")
               /\ Is(s, e + 2, "\\")
               /\ e + 3 <= Len(s) /\ s[e + 3] \in CmdLetters
            THEN [ok |-> TRUE, next |-> e + 4, target |-> SubSeq(s, i + 2, e - 1),
                  alias |-> <<>>, cmd |-> s[e + 3]]
            ELSE NoMatch
    IN  match(FirstIn(s, i + 2, {"]", "|", "\\"}))

\* /\[\[([^\]|]+)\|([^\]]+)\]\]\\([lutc])/ matched at index i
POSTFIX_ALIAS_CMD_RE(s, i) ==
    LET match(e1, e2) ==
            IF /\ Is(s, i, "[") /\ Is(s, i + 1, "[")
               /\ e1 > i + 2
               /\ Is(s, e1, "|")
               /\ e2 > e1 + 1
               /\ Is(s, e2, "]") /\ Is(s, e2 + 1, "]")
               /\ Is(s, e2 + 2, "\\")
               /\ e2 + 3 <= Len(s) /\ s[e2 + 3] \in CmdLetters
            THEN [ok |-> TRUE, next |-> e2 + 4, target |-> SubSeq(s, i + 2, e1 - 1),
                  alias |-> SubSeq(s, e1 + 1, e2 - 1), cmd |-> s[e2 + 3]]
            ELSE NoMatch
        bar(e1) == match(e1, FirstIn(s, e1 + 1, {"]"}))
    IN  bar(FirstIn(s, i + 2, {"]", "|"}))

MatchAt(form, s, i) ==
    CASE form = "postfixAlias" -> POSTFIX_ALIAS_CMD_RE(s, i)
      [] form = "postfixLink"  -> POSTFIX_LINK_CMD_RE(s, i)
      [] form = "alias"        -> ALIAS_CMD_RE(s, i)
      [] form = "link"         -> LINK_CMD_RE(s, i)

\* RegExp.prototype.exec with lastIndex = from - 1: the index of the leftmost
\* match starting at from or later, 0 when there is none
Exec(form, s, from) ==
    LET leftmost(starts) == IF starts = {} THEN 0 ELSE Min(starts)
    IN  leftmost({ i \in from..Len(s) : s[i] = "[" /\ MatchAt(form, s, i).ok })

\* -------------------------------------------------------------- replacers

postfixAliasReplacer(linkTarget, aliasText, cmd) ==
    <<"[", "[">> \o linkTarget \o <<"|">> \o ApplyCmd(cmd, aliasText) \o <<"]", "]">>

postfixLinkReplacer(linkTarget, cmd) ==
    LET link(alias) ==
            IF alias = linkTarget
            THEN <<"[", "[">> \o linkTarget \o <<"]", "]">>
            ELSE <<"[", "[">> \o linkTarget \o <<"|">> \o alias \o <<"]", "]">>
    IN  link(ApplyCmd(cmd, linkTarget))

aliasReplacer(linkTarget, aliasText, cmd) ==
    <<"[", "[">> \o linkTarget \o <<"|">> \o ApplyCmd(cmd, aliasText) \o <<"]", "]">>

\* linkReplacer without the alias === linkTarget test: an alias is always written
linkReplacerAlwaysAlias(linkTarget, cmd) ==
    <<"[", "[">> \o linkTarget \o <<"|">> \o ApplyCmd(cmd, linkTarget) \o <<"]", "]">>

linkReplacer(linkTarget, cmd) ==
    LET link(alias) ==
            IF alias = linkTarget
            THEN <<"[", "[">> \o linkTarget \o <<"]", "]">>
            ELSE <<"[", "[">> \o linkTarget \o <<"|">> \o alias \o <<"]", "]">>
    IN  link(ApplyCmd(cmd, linkTarget))

Replacer(form, m) ==
    CASE form = "postfixAlias" -> postfixAliasReplacer(m.target, m.alias, m.cmd)
      [] form = "postfixLink"  -> postfixLinkReplacer(m.target, m.cmd)
      [] form = "alias"        -> aliasReplacer(m.target, m.alias, m.cmd)
      [] form = "link"         -> linkReplacer(m.target, m.cmd)

\* String.prototype.replace with a global pattern, from index `from` on
RECURSIVE ReplaceFrom(_, _, _)
ReplaceFrom(form, s, from) ==
    LET replaced(i, m) ==
            SubSeq(s, from, i - 1) \o Replacer(form, m) \o ReplaceFrom(form, s, m.next)
        scan(i) ==
            IF i = 0 THEN SubSeq(s, from, Len(s))
            ELSE replaced(i, MatchAt(form, s, i))
    IN  scan(Exec(form, s, from))

Replace(form, s) == ReplaceFrom(form, s, 1)

transformContent(input) ==
    Replace("link", Replace("alias", Replace("postfixLink", Replace("postfixAlias", input))))

\* ---------------------------------------------------------------- handler

NoEnclosing ==
    [found |-> FALSE, form |-> "none", enclosingMatchStart |-> 0, matchEnd |-> 0,
     transformedMatchText |-> <<>>, transformedPrefixLength |-> 0]

\* the search loop without its span test: the first match is taken wherever
\* the caret is
ExecLoopNoSpanTest(form, s, from, p) == Exec(form, s, from)

\* while ((m = re.exec(original)) !== null) { if (cursorOffset >= start &&
\* cursorOffset <= end) { ...; break; } }: the index of the first match of the
\* scan whose span holds cursorOffset, 0 when the scan ends without one
RECURSIVE ExecLoop(_, _, _, _)
ExecLoop(form, s, from, p) ==
    LET test(i, m) ==
            IF p >= i - 1 /\ p <= m.next - 1 THEN i
            ELSE ExecLoop(form, s, m.next, p)
        loop(i) == IF i = 0 THEN 0 ELSE test(i, MatchAt(form, s, i))
    IN  loop(Exec(form, s, from))

\* the body of one search loop: the three locals it assigns
EnclosingOf(form, s, p) ==
    LET assigned(i, m) ==
            [found |-> TRUE, form |-> form,
             enclosingMatchStart |-> i - 1, matchEnd |-> m.next - 1,
             transformedMatchText |-> Replacer(form, m),
             transformedPrefixLength |-> Len(transformContent(SubSeq(s, 1, i - 1)))]
        body(i) == IF i = 0 THEN NoEnclosing ELSE assigned(i, MatchAt(form, s, i))
    IN  body(ExecLoop(form, s, 1, p))

\* the four search loops, each run only if (enclosingMatchStart === null)
FindEnclosing(s, p) ==
    LET orElse(first, rest) == IF first.found THEN first ELSE rest
    IN  orElse(EnclosingOf("postfixAlias", s, p),
          orElse(EnclosingOf("postfixLink", s, p),
            orElse(EnclosingOf("alias", s, p),
                   EnclosingOf("link", s, p))))

\* the handler without its entry test
GuardNeverReturns == FALSE

\* if (this.isApplying) return;
GuardReturns == isApplying

\* the handler without its no-op test: the text is always written
DiffersAlways(t, o) == TRUE

\* if (transformed !== original)
Differs(t, o) == t # o

\* const newOffset = transformedPrefixLength + transformedMatchText.length
NewOffset(enc) == enc.transformedPrefixLength + Len(enc.transformedMatchText)

NoCalls == [getValue |-> 0, setValue |-> 0, setCursor |-> 0, passes |-> 0,
            nested |-> 0, guarded |-> 0]

\* where the host leaves the caret after setValue replaced the whole document
HostCaretAfterSetValue(t, p) == {0, IF p <= Len(t) THEN p ELSE Len(t)}

\* ------------------------------------------------------------- documents
\* The contents an edited note is drawn from: every pattern form over a few
\* targets, aliases and command letters, alone and followed by a second
\* command, plus partial markup and pairs of links.

Open  == <<"[", "[">>
Close == <<"]", "]">>
Cmd(c) == <<"\\", c>>

InlineLink(t, c)      == Open \o t \o Cmd(c) \o Close
PostfixLink(t, c)     == Open \o t \o Close \o Cmd(c)
InlineAlias(t, a, c)  == Open \o t \o <<"|">> \o a \o Cmd(c) \o Close
PostfixAlias(t, a, c) == Open \o t \o <<"|">> \o a \o Close \o Cmd(c)
PlainLink(t)          == Open \o t \o Close
AliasLink(t, a)       == Open \o t \o <<"|">> \o a \o Close

Targets ==
    { <<"a">>, <<"A">>, <<"A", "b", " ", "C">>, <<"a", "1", "b">>,
      <<"ae", "a">>, <<"1", "A">>, <<"A", "'", "B">> }

AliasTargets == { <<"t">>, <<"a", "\\", "l">> }

Aliases ==
    { <<"B">>, <<"A", "b", " ", "C">>, <<"a", "_", "b">>,
      <<"A", "\\", "l">>, <<"a", "|", "B">> }

LinkDocs ==
    { InlineLink(t, c) : t \in Targets, c \in CmdLetters }
    \cup { PostfixLink(t, c) : t \in Targets, c \in CmdLetters }

AliasDocs ==
    { InlineAlias(t, a, c) : t \in AliasTargets, a \in Aliases, c \in CmdLetters }
    \cup { PostfixAlias(t, a, c) : t \in AliasTargets, a \in Aliases, c \in CmdLetters }

\* an occurrence followed by a second command, and pairs of occurrences
PairDocs ==
    { InlineLink(<<"a">>, "l") \o Cmd("l"),
      InlineLink(<<"A">>, "l") \o Cmd("u"),
      PostfixLink(<<"a">>, "l") \o Cmd("l"),
      InlineAlias(<<"t">>, <<"B">>, "l") \o Cmd("u"),
      InlineLink(<<"A">>, "l") \o InlineLink(<<"b">>, "u"),
      PostfixLink(<<"A">>, "l") \o PostfixAlias(<<"B">>, <<"c">>, "u"),
      InlineAlias(<<"A">>, <<"b">>, "u") \o <<" ">> \o InlineLink(<<"c">>, "t"),
      InlineLink(<<"a">>, "l") \o PostfixLink(<<"b">>, "l"),
      Open \o <<"t", "|">> \o InlineLink(<<"b">>, "l") \o Cmd("u"),
      Open \o PostfixAlias(<<"t">>, <<"a">>, "u"),
      Open \o InlineLink(<<"A">>, "l") }

\* partial markup, and links whose command letter is no command
PartialDocs ==
    { <<>>, Cmd("l"), PlainLink(<<"a">>), AliasLink(<<"a">>, <<"b">>),
      Open \o Cmd("l") \o Close, Open \o <<"a", "|">> \o Cmd("l") \o Close,
      PlainLink(<<"a">>) \o <<" ">> \o Cmd("l"),
      Open \o <<"A">> \o Cmd("l") \o <<"]">>,
      Open \o <<"A">> \o Cmd("l"),
      PlainLink(<<"A">>) \o <<"\\">>,
      PlainLink(<<"A">>),
      <<"[">> \o <<"A">> \o Cmd("l") \o Close,
      Open \o <<"A", "|", "b", "\\">>,
      InlineLink(<<"A">>, "x"), PostfixLink(<<"A">>, "x"),
      InlineAlias(<<"t">>, <<"B">>, "x"), PostfixAlias(<<"t">>, <<"B">>, "L") }

Docs == LinkDocs \cup AliasDocs \cup PairDocs \cup PartialDocs

\* the keys of a modelled keystroke
TypedChars == {"]", "\\", "l"}

\* ----------------------------------------------------------- state machine

\* The plugin is loaded (isApplying = false, settings read from the store);
\* the first edit of the session has left the note with any of Docs and the
\* caret anywhere, and its editor-change notification is pending.
Init ==
    /\ text \in Docs
    /\ caret \in 0..Len(text)
    /\ settings \in [lowercaseFirstWordOnly : BOOLEAN]
    /\ isApplying = FALSE
    /\ pc = "notify"
    /\ original = <<>>
    /\ cursorOffset = 0
    /\ enclosing = NoEnclosing
    /\ transformed = <<>>
    /\ calls = NoCalls

\* applyTransformToEditor, called for an external editor-change event, up to
\* and including editor.setValue(transformed)
EditorChange ==
    /\ pc = "notify"
    /\ IF GuardReturns
       THEN /\ pc' = "idle"
            /\ calls' = [calls EXCEPT !.guarded = @ + 1]
            /\ UNCHANGED <<text, caret, settings, isApplying, original,
                           cursorOffset, enclosing, transformed>>
       ELSE \E t \in {transformContent(text)} :
                /\ original' = text
                /\ cursorOffset' = caret
                /\ enclosing' = FindEnclosing(text, caret)
                /\ transformed' = t
                /\ UNCHANGED settings
                /\ IF Differs(t, text)
                   THEN /\ isApplying' = TRUE
                        /\ text' = t
                        /\ caret' \in HostCaretAfterSetValue(t, caret)
                        /\ calls' = [calls EXCEPT !.getValue = @ + 1,
                                       !.passes = @ + 1, !.setValue = @ + 1]
                        /\ pc' = "written"
                   ELSE /\ calls' = [calls EXCEPT !.getValue = @ + 1,
                                       !.passes = @ + 1]
                        /\ pc' = "idle"
                        /\ UNCHANGED <<text, caret, isApplying>>

\* The same invocation when editor.setValue throws: the flag is set, the write
\* fails and leaves the host's text and caret as they were, control leaves the
\* try block.
SetValueThrows ==
    /\ pc = "notify"
    /\ ~GuardReturns
    /\ \E t \in {transformContent(text)} :
          /\ Differs(t, text)
          /\ original' = text
          /\ cursorOffset' = caret
          /\ enclosing' = FindEnclosing(text, caret)
          /\ transformed' = t
          /\ isApplying' = TRUE
          /\ calls' = [calls EXCEPT !.getValue = @ + 1, !.passes = @ + 1,
                         !.setValue = @ + 1]
          /\ pc' = "thrown"
          /\ UNCHANGED <<text, caret, settings>>

\* The editor-change notification that setValue raises, delivered while the
\* write is in flight: applyTransformToEditor is entered again.
NestedEditorChange ==
    /\ pc = "written"
    /\ calls.nested < MaxNested
    /\ UNCHANGED <<caret, settings, pc, original, cursorOffset, enclosing, transformed>>
    /\ IF GuardReturns
       THEN /\ calls' = [calls EXCEPT !.nested = @ + 1, !.guarded = @ + 1]
            /\ UNCHANGED <<text, isApplying>>
       ELSE \E t \in {transformContent(text)} :
                IF t # text
                THEN /\ text' = t
                     /\ isApplying' = FALSE
                     /\ calls' = [calls EXCEPT !.nested = @ + 1, !.getValue = @ + 1,
                                    !.passes = @ + 1, !.setValue = @ + 1]
                ELSE /\ calls' = [calls EXCEPT !.nested = @ + 1, !.getValue = @ + 1,
                                    !.passes = @ + 1]
                     /\ UNCHANGED <<text, isApplying>>

\* the rest of the try block: editor.setCursor(editor.offsetToPos(newOffset))
\* when the three locals are set; the host clamps an offset past the end
SetCursor ==
    /\ pc = "written"
    /\ pc' = "finally"
    /\ UNCHANGED <<text, settings, isApplying, original, cursorOffset, enclosing, transformed>>
    /\ IF enclosing.found
       THEN /\ caret' = IF NewOffset(enclosing) <= Len(text)
                        THEN NewOffset(enclosing) ELSE Len(text)
            /\ calls' = [calls EXCEPT !.setCursor = @ + 1]
       ELSE UNCHANGED <<caret, calls>>

\* the host call throws instead: control leaves the try block
SetCursorThrows ==
    /\ pc = "written"
    /\ enclosing.found
    /\ pc' = "thrown"
    /\ calls' = [calls EXCEPT !.setCursor = @ + 1]
    /\ UNCHANGED <<text, caret, settings, isApplying, original, cursorOffset,
                   enclosing, transformed>>

\* the flag cleared after the try block only: a throw skips the assignment
NoFinallyOnThrow == FALSE

\* try { ... } finally { ... }: the block runs when the try block throws as
\* when it ends
FinallyOnThrow == TRUE

\* finally { this.isApplying = false; }
Finally ==
    /\ pc \in {"finally", "thrown"}
    /\ isApplying' = IF pc = "thrown" /\ ~FinallyOnThrow THEN isApplying ELSE FALSE
    /\ pc' = "idle"
    /\ UNCHANGED <<text, caret, settings, original, cursorOffset, enclosing,
                   transformed, calls>>

\* A keystroke: the host inserts ch at the caret and raises editor-change.
UserType(ch) ==
    /\ pc = "idle"
    /\ Len(text) < MaxTypeLen
    /\ text' = SubSeq(text, 1, caret) \o <<ch>> \o SubSeq(text, caret + 1, Len(text))
    /\ caret' = caret + 1
    /\ pc' = "notify"
    /\ original' = <<>>
    /\ cursorOffset' = 0
    /\ enclosing' = NoEnclosing
    /\ transformed' = <<>>
    /\ calls' = NoCalls
    /\ UNCHANGED <<settings, isApplying>>

\* the settings tab's toggle: onChange(v). Like a keystroke it starts a new
\* user action: the record of the finished invocation is dropped.
SetLowercaseFirstWordOnly(v) ==
    /\ pc = "idle"
    /\ settings' = [settings EXCEPT !.lowercaseFirstWordOnly = v]
    /\ original' = <<>>
    /\ cursorOffset' = 0
    /\ enclosing' = NoEnclosing
    /\ transformed' = <<>>
    /\ calls' = NoCalls
    /\ UNCHANGED <<text, caret, isApplying, pc>>

Next ==
    \/ EditorChange
    \/ SetValueThrows
    \/ NestedEditorChange
    \/ SetCursor
    \/ SetCursorThrows
    \/ Finally
    \/ \E ch \in TypedChars : UserType(ch)
    \/ \E v \in BOOLEAN : SetLowercaseFirstWordOnly(v)

Spec == Init /\ [][Next]_vars

\* ------------------------------------------------- the grammar, declaratively
\* The four forms of the spec's grammar as shapes of a whole word w, written
\* from the grammar and not from the scan: used to state the claims.

NoneOf(w, from, to, S) == \A k \in from..to : w[k] \notin S

IsInlineLinkText(w) ==
    LET n == Len(w)
    IN  /\ n >= 7
        /\ w[1] = "[" /\ w[2] = "["
        /\ NoneOf(w, 3, n - 4, {"]", "|", "\\"})
        /\ w[n - 3] = "\\" /\ w[n - 2] \in CmdLetters
        /\ w[n - 1] = "]" /\ w[n] = "]"

IsPostfixLinkText(w) ==
    LET n == Len(w)
    IN  /\ n >= 7
        /\ w[1] = "[" /\ w[2] = "["
        /\ NoneOf(w, 3, n - 4, {"]", "|", "\\"})
        /\ w[n - 3] = "]" /\ w[n - 2] = "]"
        /\ w[n - 1] = "\\" /\ w[n] \in CmdLetters

\* b is the index of the bar that ends the target
IsInlineAliasText(w) ==
    LET n == Len(w)
    IN  /\ n >= 9
        /\ w[1] = "[" /\ w[2] = "["
        /\ \E b \in 4..(n - 5) :
              /\ w[b] = "|"
              /\ NoneOf(w, 3, b - 1, {"]", "|"})
              /\ NoneOf(w, b + 1, n - 4, {"]", "\\"})
        /\ w[n - 3] = "\\" /\ w[n - 2] \in CmdLetters
        /\ w[n - 1] = "]" /\ w[n] = "]"

IsPostfixAliasText(w) ==
    LET n == Len(w)
    IN  /\ n >= 9
        /\ w[1] = "[" /\ w[2] = "["
        /\ \E b \in 4..(n - 5) :
              /\ w[b] = "|"
              /\ NoneOf(w, 3, b - 1, {"]", "|"})
              /\ NoneOf(w, b + 1, n - 4, {"]"})
        /\ w[n - 3] = "]" /\ w[n - 2] = "]"
        /\ w[n - 1] = "\\" /\ w[n] \in CmdLetters

IsOccurrenceText(w) ==
    \/ IsPostfixAliasText(w)
    \/ IsPostfixLinkText(w)
    \/ IsInlineAliasText(w)
    \/ IsInlineLinkText(w)

\* the spans [start, end] (offsets) of the occurrences of s
OccurrenceSpans(s) ==
    { sp \in (0..Len(s)) \X (0..Len(s)) :
        /\ sp[1] < sp[2]
        /\ s[sp[1] + 1] = "["
        /\ IsOccurrenceText(SubSeq(s, sp[1] + 1, sp[2])) }

ContainsOccurrence(s) == OccurrenceSpans(s) # {}

CaretInsideOccurrence(s, p) ==
    \E sp \in OccurrenceSpans(s) : sp[1] <= p /\ p <= sp[2]

\* the handler has run its pass for the current user action
Handled == calls.passes >= 1

\* ------------------------------------------------------------------ claims

\* C1: the rewrite pass is idempotent: the text one pass produced (and wrote
\* to the host) is left unchanged by a second pass.
C1_RewriteIdempotent ==
    pc = "written" => transformContent(transformed) = transformed

\* C2: for one external editor-change event the handler runs at most one
\* rewrite pass, reads the host at most once and calls setValue at most once;
\* every notification delivered while the write is in flight returns at entry
\* and leaves the written text as it is.
C2_AtMostOnePass ==
    /\ calls.passes <= 1
    /\ calls.getValue <= 1
    /\ calls.setValue <= 1
    /\ calls.guarded = calls.nested
    /\ (pc \in {"written", "finally"} => isApplying /\ text = transformed)

C2_Witness ==
    /\ pc = "written"
    /\ calls.nested >= 1
    /\ calls.guarded >= 1
    /\ calls.setValue = 1

\* C3: the handler calls setValue iff the rewrite of the text it read differs
\* from that text, and writes exactly the rewrite; when the rewrite equals the
\* text, the host's text and caret are left as they were and setCursor is not
\* called.
C3_NoOpGuard ==
    Handled =>
        /\ (calls.setValue = 1) <=> (transformContent(original) # original)
        /\ calls.setValue = 1 => transformed = transformContent(original)
        /\ (pc = "written" /\ calls.setValue = 1) => text = transformContent(original)
        /\ calls.setValue = 0 =>
              /\ text = original
              /\ caret = cursorOffset
              /\ calls.setCursor = 0
              /\ pc = "idle"

C3_Witness ==
    /\ Handled
    /\ ContainsOccurrence(original) = FALSE
    /\ Len(original) >= 5
    /\ calls.setValue = 0
    /\ text = original
    /\ pc = "idle"

\* C4: when the search selected an occurrence around the caret, the offset the
\* handler sets lies within the rewritten text, and the rewritten text up to
\* that offset is the rewrite of the text before the occurrence followed by
\* the occurrence's replacement.
C4_CaretAfterReplacement ==
    (pc = "written" /\ enclosing.found) =>
        /\ NewOffset(enclosing) <= Len(transformed)
        /\ SubSeq(transformed, 1, NewOffset(enclosing))
             = transformContent(SubSeq(original, 1, enclosing.enclosingMatchStart))
                 \o enclosing.transformedMatchText

\* C5: setCursor is called only in a pass that also replaced the text and
\* whose caret offset lay within the span of an occurrence of the text read;
\* when no occurrence holds the caret the text is still replaced if the
\* rewrite changed it.
C5_CaretOnlyInsideOccurrence ==
    Handled =>
        /\ calls.setCursor <= 1
        /\ calls.setCursor = 1 =>
              /\ calls.setValue = 1
              /\ CaretInsideOccurrence(original, cursorOffset)
        /\ (pc \in {"finally", "idle"} /\ ~CaretInsideOccurrence(original, cursorOffset)) =>
              /\ calls.setCursor = 0
              /\ (calls.setValue = 1) <=> (transformed # original)

C5_Witness ==
    /\ pc = "finally"
    /\ calls.setValue = 1
    /\ calls.setCursor = 0
    /\ ContainsOccurrence(original)
    /\ ~CaretInsideOccurrence(original, cursorOffset)

\* ------------------------------------------- the transforms, as the spec words them

\* every letter lowercased
SpecLowerAll(x) == [i \in 1..Len(x) |-> toLowerCaseCh(x[i])]

\* only the leading run of letters and apostrophes lowercased
SpecLowerFirstWord(x) ==
    [i \in 1..Len(x) |->
        IF \A j \in 1..i : x[j] \in Letters \cup {"'"} THEN toLowerCaseCh(x[i]) ELSE x[i]]

SpecLower(x) ==
    IF settings.lowercaseFirstWordOnly THEN SpecLowerFirstWord(x) ELSE SpecLowerAll(x)

\* lowercased, then the first letter of every maximal run of letters uppercased
SpecTitle(x) ==
    [i \in 1..Len(x) |->
        IF x[i] \in Letters /\ (i = 1 \/ x[i - 1] \notin Letters)
        THEN toUpperCaseCh(toLowerCaseCh(x[i]))
        ELSE toLowerCaseCh(x[i])]

\* the parts of a word that has the shape of a form
TargetOf(w) == SubSeq(w, 3, FirstIn(w, 3, {"]", "|", "\\"}) - 1)
AliasTargetOf(w) == SubSeq(w, 3, FirstIn(w, 3, {"|"}) - 1)
InlineAliasOf(w) == SubSeq(w, FirstIn(w, 3, {"|"}) + 1, Len(w) - 4)
PostfixAliasOf(w) == SubSeq(w, FirstIn(w, 3, {"|"}) + 1, Len(w) - 4)
InlineCmdOf(w) == w[Len(w) - 2]
PostfixCmdOf(w) == w[Len(w)]

StartsWith(s, w) == Len(s) >= Len(w) /\ SubSeq(s, 1, Len(w)) = w

\* `[[target]]` when x = target, `[[target|x]]` otherwise
LinkOrAlias(t, x) == IF x = t THEN PlainLink(t) ELSE AliasLink(t, x)

C7_AliasForms ==
    Handled =>
        /\ IsPostfixAliasText(original) =>
              transformed = AliasLink(AliasTargetOf(original),
                                ApplyCmd(PostfixCmdOf(original), PostfixAliasOf(original)))
        /\ IsInlineAliasText(original) =>
              transformed = AliasLink(AliasTargetOf(original),
                                ApplyCmd(InlineCmdOf(original), InlineAliasOf(original)))

C9_TitleEveryLetterRun ==
    Handled =>
        /\ (IsInlineLinkText(original) /\ InlineCmdOf(original) = "t") =>
              transformed = LinkOrAlias(TargetOf(original), SpecTitle(TargetOf(original)))
        /\ (IsInlineAliasText(original) /\ InlineCmdOf(original) = "t") =>
              transformed = AliasLink(AliasTargetOf(original),
                                SpecTitle(InlineAliasOf(original)))

\* C10: a text that holds no occurrence of any of the four forms is left as
\* it is: the rewrite returns it and the handler writes nothing.
C10_UnmatchedInert ==
    (Handled /\ ~ContainsOccurrence(original)) =>
        /\ transformed = original
        /\ calls.setValue = 0
        /\ text = original
        /\ pc = "idle"

C10_Witness ==
    /\ Handled
    /\ original = InlineLink(<<"A">>, "x")
    /\ text = original
    /\ calls.setValue = 0


\* ------------------------------------------- where the characters of a pass come from
\* Beside each text of the pass a sequence of the same length is kept: for each
\* character the index of the document character it was copied or case-mapped
\* from, 0 for a character a replacer wrote itself (the bar of a new alias).

Forms == {"postfixAlias", "postfixLink", "alias", "link"}

Identity(s) == [k \in 1..Len(s) |-> k]

\* the origins of the characters of Replacer(form, m), m the match at index i
\* of a text whose origins are src: the brackets, the target, the bar and the
\* alias keep their places, the command is dropped; a link form copies the
\* target a second time behind a bar of its own unless it collapses
ReplacerOrigins(form, src, i, m) ==
    LET origins(nt, na, close) ==
            IF form \in {"postfixAlias", "alias"}
            THEN SubSeq(src, i, i + 1) \o SubSeq(src, i + 2, i + 1 + nt)
                   \o SubSeq(src, i + 2 + nt, i + 2 + nt + na)
                   \o SubSeq(src, close, close + 1)
            ELSE IF Len(Replacer(form, m)) = nt + 4
            THEN SubSeq(src, i, i + 1) \o SubSeq(src, i + 2, i + 1 + nt)
                   \o SubSeq(src, close, close + 1)
            ELSE SubSeq(src, i, i + 1) \o SubSeq(src, i + 2, i + 1 + nt)
                   \o <<0>> \o SubSeq(src, i + 2, i + 1 + nt)
                   \o SubSeq(src, close, close + 1)
    IN  origins(Len(m.target), Len(m.alias),
                IF form \in {"postfixAlias", "postfixLink"} THEN m.next - 4 ELSE m.next - 2)

\* the origins of ReplaceFrom(form, s, from)
RECURSIVE OriginsFrom(_, _, _, _)
OriginsFrom(form, s, src, from) ==
    LET replaced(i, m) ==
            SubSeq(src, from, i - 1) \o ReplacerOrigins(form, src, i, m)
                \o OriginsFrom(form, s, src, m.next)
        scan(i) ==
            IF i = 0 THEN SubSeq(src, from, Len(s))
            ELSE replaced(i, MatchAt(form, s, i))
    IN  scan(Exec(form, s, from))

\* the document characters inside the occurrences the substitution of `form`
\* matches in s, from index `from` on
RECURSIVE CoveredFrom(_, _, _, _)
CoveredFrom(form, s, src, from) ==
    LET span(i, m) ==
            ({ src[k] : k \in i..(m.next - 1) } \ {0}) \cup CoveredFrom(form, s, src, m.next)
        scan(i) == IF i = 0 THEN {} ELSE span(i, MatchAt(form, s, i))
    IN  scan(Exec(form, s, from))

\* one pass over input: for each form, the document characters (indices of
\* input) that lie in an occurrence that form's substitution rewrote
PassCovered(input) ==
    LET s0 == input
        o0 == Identity(input)
        s1 == Replace("postfixAlias", s0)
        o1 == OriginsFrom("postfixAlias", s0, o0, 1)
        s2 == Replace("postfixLink", s1)
        o2 == OriginsFrom("postfixLink", s1, o1, 1)
        s3 == Replace("alias", s2)
        o3 == OriginsFrom("alias", s2, o2, 1)
    IN  [postfixAlias |-> CoveredFrom("postfixAlias", s0, o0, 1),
         postfixLink  |-> CoveredFrom("postfixLink", s1, o1, 1),
         alias        |-> CoveredFrom("alias", s2, o2, 1),
         link         |-> CoveredFrom("link", s3, o3, 1)]

\* C11: within the pass the handler ran, no character of the text it read lies
\* in an occurrence rewritten by one form and also in an occurrence rewritten
\* by another form.
C11_FormSpansDisjoint ==
    Handled =>
        \A f, g \in Forms :
            f # g => PassCovered(original)[f] \cap PassCovered(original)[g] = {}

\* C12: isApplying is false whenever no invocation of the handler is running
\* (before the notification is handled and after the handler has left); it is
\* set only by an invocation that has called setValue, and no notification
\* other than the nested ones raised by that write was returned at entry.
C12_FlagNeverStuck ==
    /\ pc \in {"idle", "notify"} => ~isApplying
    /\ isApplying => (calls.setValue = 1 /\ pc \in {"written", "finally", "thrown"})
    /\ pc = "notify" => ~GuardReturns
    /\ calls.guarded = calls.nested
    /\ (pc = "idle" /\ calls # NoCalls) => calls.passes = 1

\* setValue threw, the handler has left and the flag is clear
C12_Witness ==
    /\ pc = "idle"
    /\ ~isApplying
    /\ calls.setValue = 1
    /\ transformed # original
    /\ text = original
====
